---- MODULE Spec2Model ----
(***************************************************************************)
(* Model of the spreadsheet cell reader: the address codec                 *)
(* (excel_reader.py / read_excel.py), the blank classifier and source      *)
(* resolver (utils.py), the eager reader class ExcelReader and the direct  *)
(* per-call reader functions of read_excel.py.                             *)
(*                                                                         *)
(* Python strings are sequences of one-character strings.  Optional[int]   *)
(* and Optional[str] are sequences of length 0 (None) or 1.                *)
(***************************************************************************)
EXTENDS Integers, Sequences, FiniteSets, TLC

VARIABLES
    files,        \* the file system: path -> "absent" | "empty" | "xlsx" | "garbage"
    workbook,     \* the sheets stored in every well-formed document
    alive,        \* whether an ExcelReader object exists
    excel_path,   \* ExcelReader.excel_path
    local_path,   \* ExcelReader.local_path
    is_temp,      \* ExcelReader.is_temp
    sheet_name,   \* ExcelReader.sheet_name
    dataframe,    \* ExcelReader.dataframe
    opened,       \* the constructor returned normally (the caller holds the session)
    closes,       \* number of close() calls made on the current object
    pc,           \* "idle" | "start" | "done": position of the current call
    call,         \* the operation being applied and its arguments
    ret           \* what the last operation returned or raised

vars == <<files, workbook, alive, excel_path, local_path, is_temp, sheet_name,
          dataframe, opened, closes, pc, call, ret>>

sessionVars == <<files, workbook, alive, excel_path, local_path, is_temp,
                 sheet_name, dataframe, opened, closes>>

-----------------------------------------------------------------------------
(* Bounds of the model *)

\* column indices 0..MaxColIdx are converted (702 = "AAA" is the first three-letter column)
MaxColIdx == 710
\* zero-based rows 0..MaxRowIdx are formatted (row numbers 1..MaxRowIdx+1, two digits)
MaxRowIdx == 11
\* address strings of up to MaxAddrLen characters are parsed
MaxAddrLen == 3
\* at most MaxTemp temporary files are ever created
MaxTemp == 2
\* the scanned sheets store values in rows 1..MaxGridRows
MaxGridRows == 3
\* close() is called up to MaxCloses times on one session
MaxCloses == 3

-----------------------------------------------------------------------------
(* Characters and Python string primitives *)

UpperLetters == <<"A","B","C","D","E","F","G","H","I","J","K","L","M",
                  "N","O","P","Q","R","S","T","U","V","W","X","Y","Z">>
LowerLetters == <<"a","b","c","d","e","f","g","h","i","j","k","l","m",
                  "n","o","p","q","r","s","t","u","v","w","x","y","z">>
DigitChars == <<"0","1","2","3","4","5","6","7","8","9">>

Range(seq) == {seq[i] : i \in 1..Len(seq)}
IndexOf(seq, ch) == CHOOSE i \in 1..Len(seq) : seq[i] = ch

\* str.upper(), one character
upper_char(ch) ==
    IF ch \in Range(LowerLetters) THEN UpperLetters[IndexOf(LowerLetters, ch)] ELSE ch

\* str.upper()
upper(s) == [i \in 1..Len(s) |-> upper_char(s[i])]

\* ord(char) - ord('A') for an upper-case letter
ord_minus_A(ch) == IndexOf(UpperLetters, ch) - 1

\* chr(ord('A') + k) for k in 0..25
chr_A_plus(k) == UpperLetters[k + 1]

\* int(row_str) for a non-empty string of decimal digits
RECURSIVE int_of(_)
int_of(s) ==
    IF Len(s) = 0 THEN 0
    ELSE int_of(SubSeq(s, 1, Len(s) - 1)) * 10 + (IndexOf(DigitChars, s[Len(s)]) - 1)

\* str(n) / f"{n}" for an integer
RECURSIVE str_of_nat(_)
str_of_nat(n) ==
    IF n < 10 THEN <<DigitChars[n + 1]>>
    ELSE str_of_nat(n \div 10) \o <<DigitChars[(n % 10) + 1]>>

str_of_int(n) == IF n < 0 THEN <<"-">> \o str_of_nat(0 - n) ELSE str_of_nat(n)

-----------------------------------------------------------------------------
(* AddressCodec *)

\* number of leading characters of s that are upper-case letters
RECURSIVE leading_letters(_)
leading_letters(s) ==
    IF Len(s) > 0 /\ s[1] \in Range(UpperLetters)
    THEN 1 + leading_letters(Tail(s))
    ELSE 0

\* re.match(r'^([A-Z]+)(\d+)$', s): '$' also matches just before one final newline
re_match_address(s) ==
    LET body == IF Len(s) > 0 /\ s[Len(s)] = "\n" THEN SubSeq(s, 1, Len(s) - 1) ELSE s
        k    == leading_letters(body)
        rest == SubSeq(body, k + 1, Len(body))
    IN  IF k >= 1 /\ Len(rest) >= 1 /\ \A i \in 1..Len(rest) : rest[i] \in Range(DigitChars)
        THEN [ok |-> TRUE,  col_str |-> SubSeq(body, 1, k), row_str |-> rest]
        ELSE [ok |-> FALSE, col_str |-> <<>>, row_str |-> <<>>]

\* the loop  col_num = col_num * 26 + (ord(char) - ord('A') + 1)
RECURSIVE col_num_of(_)
col_num_of(col_str) ==
    IF Len(col_str) = 0 THEN 0
    ELSE col_num_of(SubSeq(col_str, 1, Len(col_str) - 1)) * 26
         + (ord_minus_A(col_str[Len(col_str)]) + 1)

_parse_cell_address(cell_address) ==
    LET m == re_match_address(upper(cell_address))
    IN  IF ~m.ok
        THEN [err |-> "ValueError: Invalid cell address format", row |-> 0, col |-> 0]
        ELSE [err |-> "none",
              row |-> int_of(m.row_str) - 1,
              col |-> col_num_of(m.col_str) - 1]

\* the while loop of _column_index_to_letter, on the 1-based value
RECURSIVE letter_loop(_, _)
letter_loop(col_idx, result) ==
    IF col_idx > 0
    THEN letter_loop((col_idx - 1) \div 26, <<chr_A_plus((col_idx - 1) % 26)>> \o result)
    ELSE result

\* the conversion with ordinary base-26 digits (A = 0), as a mutation of the one below
RECURSIVE base26_loop(_, _)
base26_loop(n, result) ==
    IF n > 0
    THEN base26_loop(n \div 26, <<chr_A_plus(n % 26)>> \o result)
    ELSE result

column_index_to_letter_base26(col_idx) ==
    IF col_idx = 0 THEN <<"A">> ELSE base26_loop(col_idx, <<>>)

\* ExcelReader._column_index_to_letter
_column_index_to_letter(col_idx) == letter_loop(col_idx + 1, <<>>)

\* read_excel._column_index_to_letter
RECURSIVE direct_letter_loop(_, _)
direct_letter_loop(col_idx, result) ==
    IF col_idx > 0
    THEN direct_letter_loop((col_idx - 1) \div 26,
                            <<chr_A_plus((col_idx - 1) % 26)>> \o result)
    ELSE result

\* the direct copy without the decrement inside the loop, as a mutation of the one below
RECURSIVE no_decrement_loop(_, _)
no_decrement_loop(col_idx, result) ==
    IF col_idx > 0
    THEN no_decrement_loop(col_idx \div 26, <<chr_A_plus(col_idx % 26)>> \o result)
    ELSE result

direct_column_index_to_letter_no_decrement(col_idx) == no_decrement_loop(col_idx, <<>>)

direct_column_index_to_letter(col_idx) == direct_letter_loop(col_idx + 1, <<>>)

\* read_excel._letter_to_column_index
RECURSIVE direct_col_num_of(_)
direct_col_num_of(column) ==
    IF Len(column) = 0 THEN 0
    ELSE direct_col_num_of(SubSeq(column, 1, Len(column) - 1)) * 26
         + (ord_minus_A(column[Len(column)]) + 1)

_letter_to_column_index(column) == direct_col_num_of(upper(column)) - 1

\* cell_address = f"{col_letter}{row}" with the 1-based row of a zero-based row index
format_address(row_idx, col_idx) ==
    _column_index_to_letter(col_idx) \o str_of_int(row_idx + 1)

-----------------------------------------------------------------------------
(* Cell values and the blank classifier *)

\* Python None / Optional
None == <<>>
Some(x) == <<x>>

\* a cell value is a tagged record: None, a string, a number or a boolean
NoneValue == [t |-> "none", s |-> <<>>, n |-> 0]
StrValue(s) == [t |-> "str", s |-> s, n |-> 0]
NumValue(n) == [t |-> "num", s |-> <<>>, n |-> n]
BoolValue(b) == [t |-> "bool", s |-> <<>>, n |-> IF b THEN 1 ELSE 0]

WhitespaceChars == {" ", "\t", "\n"}

RECURSIVE lstrip(_)
lstrip(s) == IF Len(s) > 0 /\ s[1] \in WhitespaceChars THEN lstrip(Tail(s)) ELSE s

RECURSIVE rstrip(_)
rstrip(s) ==
    IF Len(s) > 0 /\ s[Len(s)] \in WhitespaceChars
    THEN rstrip(SubSeq(s, 1, Len(s) - 1))
    ELSE s

\* str.strip()
strip(s) == rstrip(lstrip(s))

blank_values == { <<>>,
                  <<"N","/","A">>,
                  <<"N","A">>,
                  <<"N","U","L","L">>,
                  <<"N","O","N","E">>,
                  <<"#","N","/","A">>,
                  <<"#","N","A">> }

\* is_blank_or_na comparing the string as it is, without strip()
is_blank_or_na_no_strip(value) ==
    IF value.t = "none" THEN TRUE
    ELSE IF value.t = "str" /\ upper(value.s) \in blank_values THEN TRUE
    ELSE FALSE

\* utils.is_blank_or_na
is_blank_or_na(value) ==
    IF value.t = "none" THEN TRUE
    ELSE IF value.t = "str" /\ upper(strip(value.s)) \in blank_values THEN TRUE
    ELSE FALSE

-----------------------------------------------------------------------------
(* The spreadsheet document and the two decoders *)

\* A sheet is [name, cells]; cells is a sequence of rows, each a sequence of cell
\* values of one common width (the stored grid; NoneValue = nothing stored).
GridRows(sheet) == Len(sheet.cells)
GridCols(sheet) == IF Len(sheet.cells) = 0 THEN 0 ELSE Len(sheet.cells[1])

\* the sheet names of a document in document order, and the sheet of a given name
SheetNames(wb) == [i \in 1..Len(wb) |-> wb[i].name]
SheetNamed(wb, name) == wb[CHOOSE i \in 1..Len(wb) : wb[i].name = name]

\* openpyxl: sheet[cell_address].value for 1-based (row, column); None where nothing is stored
cell_value(sheet, row, col) ==
    IF row >= 1 /\ row <= GridRows(sheet) /\ col >= 1 /\ col <= GridCols(sheet)
    THEN sheet.cells[row][col]
    ELSE NoneValue

\* strings the pandas reader turns into NaN (keep_default_na) of those the model stores
pandas_na_values == { <<>>, <<"N","/","A">>, <<"N","A">>, <<"N","U","L","L">>,
                      <<"n","u","l","l">>, <<"#","N","/","A">>, <<"#","N","A">>,
                      <<"n","/","a">>, <<"N","o","n","e">>, <<"n","a","n">> }

\* pd.isna(value) after loading: nothing stored, or a string read back as NaN
loads_as_nan(value) ==
    value.t = "none" \/ (value.t = "str" /\ value.s \in pandas_na_values)

\* pd.read_excel(..., header=None): rows up to the last stored row, columns up to the
\* last stored column, NaN (NoneValue here) in every other position
last_stored_row(sheet) ==
    LET S == {r \in 1..GridRows(sheet) :
                 \E c \in 1..GridCols(sheet) : sheet.cells[r][c].t # "none"}
    IN  IF S = {} THEN 0 ELSE CHOOSE r \in S : \A q \in S : q <= r

last_stored_col(sheet) ==
    LET S == {c \in 1..GridCols(sheet) :
                 \E r \in 1..GridRows(sheet) : sheet.cells[r][c].t # "none"}
    IN  IF S = {} THEN 0 ELSE CHOOSE c \in S : \A q \in S : q <= c

read_excel(sheet) ==
    [r \in 1..last_stored_row(sheet) |->
        [c \in 1..last_stored_col(sheet) |->
            IF loads_as_nan(sheet.cells[r][c]) THEN NoneValue ELSE sheet.cells[r][c]]]

\* len(self.dataframe) and len(self.dataframe.columns)
df_len(df) == Len(df)
df_ncols(df) == IF Len(df) = 0 THEN 0 ELSE Len(df[1])

\* self.dataframe.iloc[row, col] followed by the pd.isna test; a negative index counts
\* from the end, an index outside the frame raises IndexError
iloc(df, row, col) ==
    LET r == IF row < 0 THEN row + df_len(df) ELSE row
        c == IF col < 0 THEN col + df_ncols(df) ELSE col
    IN  IF r < 0 \/ r >= df_len(df) \/ c < 0 \/ c >= df_ncols(df)
        THEN [err |-> "IndexError", value |-> NoneValue]
        ELSE [err |-> "none", value |-> df[r + 1][c + 1]]

-----------------------------------------------------------------------------
(* ExcelReader: single-cell and range reads.  Every result carries, next to   *)
(* the value returned or the exception raised, the coordinates handed to      *)
(* dataframe.iloc during the call.                                            *)

\* ExcelReader.read_cell
read_cell(df_opt, cell_address) ==
    IF df_opt = None
    THEN [err |-> "RuntimeError: DataFrame not loaded", value |-> NoneValue,
          coords |-> <<>>]
    ELSE LET df == df_opt[1]
             a  == _parse_cell_address(cell_address)
         IN  IF a.err # "none"
             THEN [err |-> a.err, value |-> NoneValue, coords |-> <<>>]
             ELSE IF a.row < 0 \/ a.col < 0
             THEN [err |-> "ValueError: Invalid cell address", value |-> NoneValue,
                   coords |-> <<>>]
             ELSE IF a.row >= df_len(df) \/ a.col >= df_ncols(df)
             THEN [err |-> "none", value |-> NoneValue, coords |-> <<>>]
             ELSE [err |-> iloc(df, a.row, a.col).err,
                   value |-> iloc(df, a.row, a.col).value,
                   coords |-> << <<a.row, a.col>> >>]

\* the two nested loops of read_cell_range, continued from (row_idx, col_idx)
RECURSIVE range_loop(_, _, _, _, _, _, _)
range_loop(df, start_col, end_row, end_col, row_idx, col_idx, acc) ==
    IF row_idx > end_row THEN acc
    ELSE IF col_idx > end_col
    THEN range_loop(df, start_col, end_row, end_col, row_idx + 1, start_col, acc)
    ELSE IF row_idx < df_len(df) /\ col_idx < df_ncols(df)
    THEN LET got == iloc(df, row_idx, col_idx)
         IN  IF got.err # "none"
             THEN [err |-> got.err, values |-> <<>>,
                   coords |-> Append(acc.coords, <<row_idx, col_idx>>)]
             ELSE range_loop(df, start_col, end_row, end_col, row_idx, col_idx + 1,
                             [err |-> "none",
                              values |-> Append(acc.values, got.value),
                              coords |-> Append(acc.coords, <<row_idx, col_idx>>)])
    ELSE range_loop(df, start_col, end_row, end_col, row_idx, col_idx + 1,
                    [err |-> "none",
                     values |-> Append(acc.values, NoneValue),
                     coords |-> acc.coords])

\* ExcelReader.read_cell_range
read_cell_range(df_opt, start_cell, end_cell) ==
    IF df_opt = None
    THEN [err |-> "RuntimeError: DataFrame not loaded", values |-> <<>>,
          coords |-> <<>>]
    ELSE LET a == _parse_cell_address(start_cell)
             b == _parse_cell_address(end_cell)
         IN  IF a.err # "none"
             THEN [err |-> a.err, values |-> <<>>, coords |-> <<>>]
             ELSE IF b.err # "none"
             THEN [err |-> b.err, values |-> <<>>, coords |-> <<>>]
             ELSE IF a.row > b.row \/ a.col > b.col
             THEN [err |-> "ValueError: Invalid range", values |-> <<>>, coords |-> <<>>]
             ELSE range_loop(df_opt[1], a.col, b.row, b.col, a.row, a.col,
                             [err |-> "none", values |-> <<>>, coords |-> <<>>])


-----------------------------------------------------------------------------
(* ExcelReader: the column scan *)

\* the safety limit of the scans
SafetyLimit == 10000

\* Python truthiness of an Optional[int]: None and 0 are false
truthy_int(opt) == opt # None /\ opt[1] # 0

\* the while loop of ExcelReader.read_all_cells_in_column, entered with `row`
RECURSIVE eager_column_loop(_, _, _, _, _, _, _)
eager_column_loop(df, column, col_idx, start_row, end_row, row, results) ==
    IF truthy_int(end_row) /\ row >= end_row[1] THEN [err |-> "none", results |-> results]
    ELSE IF row >= df_len(df) THEN [err |-> "none", results |-> results]
    ELSE LET cell_address == column \o str_of_int(row + 1)
             got == IF row < df_len(df) /\ col_idx < df_ncols(df)
                    THEN iloc(df, row, col_idx)
                    ELSE [err |-> "none", value |-> NoneValue]
             value == got.value
         IN  IF got.err # "none" THEN [err |-> got.err, results |-> <<>>]
             ELSE IF value.t = "none" /\ row >= start_row - 1 /\ row > start_row - 1
             THEN [err |-> "none", results |-> results]
             ELSE LET appended == Append(results,
                                         [address  |-> cell_address,
                                          value    |-> value,
                                          is_blank |-> is_blank_or_na(value),
                                          row      |-> row + 1])
                  IN  IF row + 1 > SafetyLimit
                      THEN [err |-> "none", results |-> appended]
                      ELSE eager_column_loop(df, column, col_idx, start_row, end_row,
                                             row + 1, appended)

\* ExcelReader.read_all_cells_in_column
read_all_cells_in_column(df_opt, column, start_row, end_row) ==
    IF df_opt = None
    THEN [err |-> "RuntimeError: DataFrame not loaded", results |-> <<>>]
    ELSE LET a == _parse_cell_address(column \o <<"1">>)
         IN  IF a.err # "none" THEN [err |-> a.err, results |-> <<>>]
             ELSE eager_column_loop(df_opt[1], column, a.col, start_row, end_row,
                                    start_row - 1, <<>>)


-----------------------------------------------------------------------------
(* ExcelReader: the row scan *)

\* Python truthiness of an Optional[str]: None and "" are false
truthy_str(opt) == opt # None /\ opt[1] # <<>>

\* the loop of the row scan letting the cell right of the start cell through when
\* it is empty, as the direct column scan does with the cell below the start cell
RECURSIVE eager_row_loop_late_stop(_, _, _, _, _, _)
eager_row_loop_late_stop(df, row, start_col_idx, end_col_idx, col_idx, results) ==
    IF end_col_idx # None /\ col_idx > end_col_idx[1]
    THEN [err |-> "none", results |-> results]
    ELSE IF col_idx >= df_ncols(df) THEN [err |-> "none", results |-> results]
    ELSE LET col_letter == _column_index_to_letter(col_idx)
             got == iloc(df, row - 1, col_idx)
             value == got.value
         IN  IF got.err # "none" THEN [err |-> got.err, results |-> <<>>]
             ELSE IF value.t = "none" /\ col_idx > start_col_idx + 1 /\ end_col_idx = None
             THEN [err |-> "none", results |-> results]
             ELSE LET appended == Append(results,
                                         [address  |-> col_letter \o str_of_int(row),
                                          value    |-> value,
                                          is_blank |-> is_blank_or_na(value),
                                          column   |-> col_letter])
                  IN  IF col_idx + 1 > SafetyLimit
                      THEN [err |-> "none", results |-> appended]
                      ELSE eager_row_loop_late_stop(df, row, start_col_idx, end_col_idx,
                                                    col_idx + 1, appended)

\* the while loop of ExcelReader.read_all_cells_in_row, entered with `col_idx`
RECURSIVE eager_row_loop(_, _, _, _, _, _)
eager_row_loop(df, row, start_col_idx, end_col_idx, col_idx, results) ==
    IF end_col_idx # None /\ col_idx > end_col_idx[1]
    THEN [err |-> "none", results |-> results]
    ELSE IF col_idx >= df_ncols(df) THEN [err |-> "none", results |-> results]
    ELSE LET col_letter == _column_index_to_letter(col_idx)
             cell_address == col_letter \o str_of_int(row)
             got == IF col_idx < df_ncols(df)
                    THEN iloc(df, row - 1, col_idx)
                    ELSE [err |-> "none", value |-> NoneValue]
             value == got.value
         IN  IF got.err # "none" THEN [err |-> got.err, results |-> <<>>]
             ELSE IF value.t = "none" /\ col_idx > start_col_idx /\ end_col_idx = None
             THEN [err |-> "none", results |-> results]
             ELSE LET appended == Append(results,
                                         [address  |-> cell_address,
                                          value    |-> value,
                                          is_blank |-> is_blank_or_na(value),
                                          column   |-> col_letter])
                  IN  IF col_idx + 1 > SafetyLimit
                      THEN [err |-> "none", results |-> appended]
                      ELSE eager_row_loop(df, row, start_col_idx, end_col_idx,
                                          col_idx + 1, appended)

\* ExcelReader.read_all_cells_in_row
read_all_cells_in_row(df_opt, row, start_column, end_column) ==
    IF df_opt = None
    THEN [err |-> "RuntimeError: DataFrame not loaded", results |-> <<>>]
    ELSE LET df == df_opt[1]
             a == _parse_cell_address(start_column \o <<"1">>)
             b == IF truthy_str(end_column)
                  THEN _parse_cell_address(end_column[1] \o <<"1">>)
                  ELSE [err |-> "none", row |-> 0, col |-> 0]
         IN  IF a.err # "none" THEN [err |-> a.err, results |-> <<>>]
             ELSE IF b.err # "none" THEN [err |-> b.err, results |-> <<>>]
             ELSE IF row - 1 < 0 \/ row - 1 >= df_len(df)
             THEN [err |-> "none", results |-> <<>>]
             ELSE eager_row_loop(df, row, a.col,
                                 IF truthy_str(end_column) THEN Some(b.col) ELSE None,
                                 a.col, <<>>)


-----------------------------------------------------------------------------
(* Locators, the file system and the remote store *)

\* a locator as urlparse sees it
LocalDoc     == [scheme |-> "",   netloc |-> "",    path |-> "data.xlsx"]
LocalGarbage == [scheme |-> "",   netloc |-> "",    path |-> "notes.txt"]
LocalMissing == [scheme |-> "",   netloc |-> "",    path |-> "missing.xlsx"]
RemoteDoc     == [scheme |-> "s3", netloc |-> "bkt", path |-> "data.xlsx"]
RemoteGarbage == [scheme |-> "s3", netloc |-> "bkt", path |-> "notes.txt"]
RemoteNoKey   == [scheme |-> "s3", netloc |-> "bkt", path |-> "gone.xlsx"]
RemoteNoBucket == [scheme |-> "s3", netloc |-> "nobkt", path |-> "data.xlsx"]
RemoteNoKeyPart == [scheme |-> "s3", netloc |-> "bkt", path |-> ""]

Locators == {LocalDoc, LocalGarbage, LocalMissing, RemoteDoc, RemoteGarbage,
             RemoteNoKey, RemoteNoBucket, RemoteNoKeyPart}

\* names tempfile.NamedTemporaryFile hands out, in order of first use
TempNames == <<"tmp1.xlsx", "tmp2.xlsx", "tmp3.xlsx", "tmp4.xlsx", "tmp5.xlsx">>

LocalNames == {"data.xlsx", "notes.txt", "missing.xlsx"}
FileNames == LocalNames \cup {TempNames[i] : i \in 1..MaxTemp}

InitialFiles ==
    [f \in FileNames |->
        IF f = "data.xlsx" THEN "xlsx"
        ELSE IF f = "notes.txt" THEN "garbage"
        ELSE "absent"]

\* the result slot before any call has returned
NoRet == [err |-> "none"]

-----------------------------------------------------------------------------
(* utils: source resolver.  `env` is what the surroundings decide during one  *)
(* call: [boto3: the import succeeded, creds: "ok" | "none_at_client" |       *)
(* "none_at_call", unlink_ok: os.unlink succeeds].                            *)

Envs == [boto3 : BOOLEAN, creds : {"ok", "none_at_client", "none_at_call"},
         unlink_ok : BOOLEAN]

\* surroundings in which nothing fails
QuietEnv == [boto3 |-> TRUE, creds |-> "ok", unlink_ok |-> TRUE]

\* utils.is_s3_uri
is_s3_uri(path) == path.scheme = "s3"

\* what the store answers for bucket/key: the object's content or a ClientError code
remote_object(bucket, key) ==
    IF bucket # "bkt" THEN "NoSuchBucket"
    ELSE IF key = "data.xlsx" THEN "xlsx"
    ELSE IF key = "notes.txt" THEN "garbage"
    ELSE "NoSuchKey"

HasFreeTemp(fs) == \E i \in 1..MaxTemp : fs[TempNames[i]] = "absent"
FreeTemp(fs) ==
    TempNames[CHOOSE i \in 1..MaxTemp :
                 /\ fs[TempNames[i]] = "absent"
                 /\ \A j \in 1..(i - 1) : fs[TempNames[j]] # "absent"]

\* utils.download_from_s3 with local_path=None
download_from_s3(fs, s3_uri, env) ==
    LET bucket_name == s3_uri.netloc
        s3_key == s3_uri.path
        failed(e, f) == [err |-> e, local_path |-> None, files |-> f]
    IN  IF ~env.boto3 THEN failed("ImportError", fs)
        ELSE IF bucket_name = "" \/ s3_key = "" THEN failed("ValueError: Invalid S3 URI", fs)
        ELSE IF env.creds = "none_at_client" THEN failed("RuntimeError: credentials", fs)
        ELSE LET temp == FreeTemp(fs)
                 created == [fs EXCEPT ![temp] = "empty"]
                 object == remote_object(bucket_name, s3_key)
             IN  IF env.creds = "none_at_call" THEN failed("NoCredentialsError", created)
                 ELSE IF object = "NoSuchKey" THEN failed("FileNotFoundError", created)
                 ELSE IF object = "NoSuchBucket" THEN failed("FileNotFoundError", created)
                 ELSE [err |-> "none", local_path |-> Some(temp),
                       files |-> [created EXCEPT ![temp] = object]]

\* get_local_path that reports a local file as temporary, as a mutation of the one below
get_local_path_always_temp(fs, locator, env) ==
    IF is_s3_uri(locator)
    THEN LET d == download_from_s3(fs, locator, env)
         IN  [err |-> d.err, local_path |-> d.local_path, is_temp |-> TRUE,
              files |-> d.files]
    ELSE IF fs[locator.path] = "absent"
    THEN [err |-> "FileNotFoundError", local_path |-> None, is_temp |-> FALSE, files |-> fs]
    ELSE [err |-> "none", local_path |-> Some(locator.path), is_temp |-> TRUE,
          files |-> fs]

\* utils.get_local_path
get_local_path(fs, locator, env) ==
    IF is_s3_uri(locator)
    THEN LET d == download_from_s3(fs, locator, env)
         IN  [err |-> d.err, local_path |-> d.local_path, is_temp |-> d.err = "none",
              files |-> d.files]
    ELSE IF fs[locator.path] = "absent"
    THEN [err |-> "FileNotFoundError", local_path |-> None, is_temp |-> FALSE, files |-> fs]
    ELSE [err |-> "none", local_path |-> Some(locator.path), is_temp |-> FALSE,
          files |-> fs]

\* utils.cleanup_temp_file
cleanup_temp_file(fs, file_path, env) ==
    IF fs[file_path] # "absent"
    THEN IF env.unlink_ok THEN [fs EXCEPT ![file_path] = "absent"] ELSE fs
    ELSE fs


\* the sheets of the document used where the sheet content does not matter
X == StrValue(<<"x">>)
Y == StrValue(<<"y">>)

\* a stored string that is a blank token, and a stored whitespace-only string
NA == StrValue(<<"N","/","A">>)
Blanks == StrValue(<<" ">>)
DefaultWorkbook ==
    << [name |-> "Sheet1", cells |-> << <<X, Y>>, <<NoneValue, Y>>, <<X, NoneValue>> >>],
       [name |-> "Sheet2", cells |-> << <<Y>> >>] >>

\* the fields of an ExcelReader built on LocalDoc with no sheet name
OpenedOnLocalDoc(wb) ==
    /\ files = InitialFiles
    /\ workbook = wb
    /\ alive = TRUE
    /\ excel_path = LocalDoc
    /\ local_path = Some("data.xlsx")
    /\ is_temp = FALSE
    /\ sheet_name = Some(wb[1].name)
    /\ dataframe = Some(read_excel(wb[1]))
    /\ opened = TRUE
    /\ closes = 0

-----------------------------------------------------------------------------
(* ExcelReader: construction and release.  `self` is the record of the fields *)
(* local_path, is_temp, sheet_name and dataframe.                             *)

\* Python truthiness of the sheet name: None and "" are false
truthy_name(opt) == opt # None /\ opt[1] # ""

\* ExcelReader._load_dataframe, entered with the fields __init__ has set
_load_dataframe(fs, wb, locator, name_opt, env) ==
    LET p == get_local_path(fs, locator, env)
        created == {f \in FileNames : fs[f] = "absent" /\ p.files[f] # "absent"}
        raised(e) ==
            [err |-> e, local_path |-> p.local_path, is_temp |-> p.is_temp,
             sheet_name |-> name_opt, dataframe |-> None, created |-> created,
             files |-> IF p.is_temp
                       THEN cleanup_temp_file(p.files, p.local_path[1], env)
                       ELSE p.files]
    IN  IF p.err # "none"
        THEN [err |-> p.err, local_path |-> None, is_temp |-> FALSE,
              sheet_name |-> name_opt, dataframe |-> None, created |-> created,
              files |-> p.files]
        ELSE IF p.files[p.local_path[1]] # "xlsx" THEN raised("BadZipFile")
        ELSE IF truthy_name(name_opt) /\ name_opt[1] \notin Range(SheetNames(wb))
        THEN raised("ValueError: Sheet not found")
        ELSE LET sheet_to_load == IF truthy_name(name_opt) THEN name_opt[1] ELSE wb[1].name
             IN  [err |-> "none", local_path |-> p.local_path, is_temp |-> p.is_temp,
                  sheet_name |-> Some(sheet_to_load),
                  dataframe |-> Some(read_excel(SheetNamed(wb, sheet_to_load))),
                  created |-> created, files |-> p.files]

\* close() that also drops the loaded table, as a mutation of the one below
close_dropping_table(self, fs, env) ==
    IF self.is_temp /\ self.local_path # None
    THEN [local_path |-> None, is_temp |-> FALSE, dataframe |-> None,
          files |-> cleanup_temp_file(fs, self.local_path[1], env)]
    ELSE [local_path |-> self.local_path, is_temp |-> self.is_temp,
          dataframe |-> None, files |-> fs]

\* close() that keeps local_path and is_temp, as a mutation of the one below
close_keeping_lease(self, fs, env) ==
    IF self.is_temp /\ self.local_path # None
    THEN [local_path |-> self.local_path, is_temp |-> self.is_temp,
          dataframe |-> self.dataframe,
          files |-> cleanup_temp_file(fs, self.local_path[1], env)]
    ELSE [local_path |-> self.local_path, is_temp |-> self.is_temp,
          dataframe |-> self.dataframe, files |-> fs]

\* ExcelReader.close
close(self, fs, env) ==
    IF self.is_temp /\ self.local_path # None
    THEN [local_path |-> None, is_temp |-> FALSE, dataframe |-> self.dataframe,
          files |-> cleanup_temp_file(fs, self.local_path[1], env)]
    ELSE [local_path |-> self.local_path, is_temp |-> self.is_temp,
          dataframe |-> self.dataframe, files |-> fs]


-----------------------------------------------------------------------------
(* read_excel: the direct reader *)

\* load_workbook(local_path, data_only=True) and the selection of the sheet:
\* the named sheet, or workbook.active (the first sheet) when no name is given
open_sheet(fs, wb, file_path, name_opt) ==
    IF fs[file_path] # "xlsx"
    THEN [err |-> "InvalidFileException", sheet |-> wb[1]]
    ELSE IF name_opt # None /\ name_opt[1] # ""
    THEN IF name_opt[1] \notin Range(SheetNames(wb))
         THEN [err |-> "ValueError: Sheet not found", sheet |-> wb[1]]
         ELSE [err |-> "none", sheet |-> SheetNamed(wb, name_opt[1])]
    ELSE [err |-> "none", sheet |-> wb[1]]

\* openpyxl: sheet[f"{column}{row}"].value
sheet_lookup(sheet, column, row) ==
    IF Len(column) >= 1 /\ Len(column) <= 3 /\ row >= 1
       /\ \A i \in 1..Len(column) : upper_char(column[i]) \in Range(UpperLetters)
    THEN [err |-> "none", value |-> cell_value(sheet, row, col_num_of(upper(column)))]
    ELSE [err |-> "ValueError: not a coordinate", value |-> NoneValue]

\* openpyxl: sheet.max_row and sheet.max_column, 1 on a sheet that stores nothing
max_row(sheet) == IF last_stored_row(sheet) = 0 THEN 1 ELSE last_stored_row(sheet)
max_column(sheet) == IF last_stored_col(sheet) = 0 THEN 1 ELSE last_stored_col(sheet)

\* openpyxl: one corner of "start:end" as the range pattern splits it, up to three
\* letters then digits, either part optional
split_corner(s) ==
    LET k == leading_letters(upper(s))
        digits == SubSeq(s, k + 1, Len(s))
    IN  IF k <= 3 /\ \A i \in 1..Len(digits) : digits[i] \in Range(DigitChars)
        THEN [err |-> "none",
              col |-> IF k = 0 THEN None ELSE Some(col_num_of(SubSeq(upper(s), 1, k))),
              row |-> IF Len(digits) = 0 THEN None ELSE Some(int_of(digits))]
        ELSE [err |-> "ValueError: not a valid coordinate or range", col |-> None,
              row |-> None]

\* openpyxl: the cells of rows min_row..max_row, columns min_col..max_col, row by row
RECURSIVE cells_by_row(_, _, _, _, _, _, _)
cells_by_row(sheet, min_col, last_row, last_col, row, col, acc) ==
    IF row > last_row THEN acc
    ELSE IF col > last_col
    THEN cells_by_row(sheet, min_col, last_row, last_col, row + 1, min_col, acc)
    ELSE cells_by_row(sheet, min_col, last_row, last_col, row, col + 1,
                      Append(acc, cell_value(sheet, row, col)))

\* openpyxl: the cells of columns min_col..max_col, rows min_row..max_row, column by column
RECURSIVE cells_by_col(_, _, _, _, _, _, _)
cells_by_col(sheet, min_row, last_row, last_col, row, col, acc) ==
    IF col > last_col THEN acc
    ELSE IF row > last_row
    THEN cells_by_col(sheet, min_row, last_row, last_col, min_row, col + 1, acc)
    ELSE cells_by_col(sheet, min_row, last_row, last_col, row + 1, col,
                      Append(acc, cell_value(sheet, row, col)))

\* `for row in sheet[start_cell:end_cell]: for cell in row: values.append(cell.value)`
\* a zero bound counts as not given (first row, sheet.max_row)
sheet_range_values(sheet, start_cell, end_cell) ==
    LET a == split_corner(start_cell)
        b == split_corner(end_cell)
        first_row == IF a.row = None \/ a.row = Some(0) THEN 1 ELSE a.row[1]
        last_row  == IF b.row = None \/ b.row = Some(0) THEN max_row(sheet) ELSE b.row[1]
        first_col == IF a.col = None THEN 1 ELSE a.col[1]
        last_col  == IF b.col = None THEN max_column(sheet) ELSE b.col[1]
    IN  IF start_cell = <<>> \/ end_cell = <<>>
        THEN [err |-> "IndexError", values |-> <<>>]
        ELSE IF a.err # "none" THEN [err |-> a.err, values |-> <<>>]
        ELSE IF b.err # "none" THEN [err |-> b.err, values |-> <<>>]
        ELSE IF a.col # None /\ b.col # None /\ a.row # None /\ b.row # None
        THEN [err |-> "none",
              values |-> cells_by_row(sheet, first_col, last_row, last_col,
                                      first_row, first_col, <<>>)]
        ELSE IF a.col # None /\ b.col # None /\ a.row = None /\ b.row = None
        THEN IF first_col = last_col
             THEN [err |-> "TypeError: 'Cell' object is not iterable", values |-> <<>>]
             ELSE [err |-> "none",
                   values |-> cells_by_col(sheet, 1, max_row(sheet), last_col,
                                           1, first_col, <<>>)]
        ELSE IF a.row # None /\ b.row # None /\ a.col = None /\ b.col = None
        THEN IF a.row = Some(0) /\ b.row = Some(0)
             THEN [err |-> "IndexError", values |-> <<>>]
             ELSE IF a.row[1] = b.row[1]
             THEN [err |-> "TypeError: 'Cell' object is not iterable", values |-> <<>>]
             ELSE [err |-> "none",
                   values |-> cells_by_row(sheet, 1, last_row, max_column(sheet),
                                           first_row, 1, <<>>)]
        ELSE [err |-> "ValueError: not a valid coordinate or range", values |-> <<>>]

\* read_excel.read_cell_range: resolve, open, read the slice, and release in `finally`
direct_read_cell_range(fs, wb, locator, start_cell, end_cell, name_opt, env) ==
    LET p == get_local_path(fs, locator, env)
    IN  IF p.err # "none" THEN [err |-> p.err, values |-> <<>>, files |-> p.files]
        ELSE LET o == open_sheet(p.files, wb, p.local_path[1], name_opt)
                 got == IF o.err # "none" THEN [err |-> o.err, values |-> <<>>]
                        ELSE sheet_range_values(o.sheet, start_cell, end_cell)
             IN  [err |-> got.err, values |-> got.values,
                  files |-> IF p.is_temp
                            THEN cleanup_temp_file(p.files, p.local_path[1], env)
                            ELSE p.files]

\* the while loop of read_excel.read_all_cells_in_column, entered with `row`
RECURSIVE direct_column_loop(_, _, _, _, _, _)
direct_column_loop(sheet, column, start_row, end_row, row, results) ==
    IF truthy_int(end_row) /\ row > end_row[1] THEN [err |-> "none", results |-> results]
    ELSE LET cell_address == column \o str_of_int(row)
             got == sheet_lookup(sheet, column, row)
             value == got.value
         IN  IF got.err # "none" THEN [err |-> got.err, results |-> <<>>]
             ELSE IF value.t = "none" /\ row > start_row /\ row > start_row + 1
             THEN [err |-> "none", results |-> results]
             ELSE LET appended == Append(results,
                                         [address  |-> cell_address,
                                          value    |-> value,
                                          is_blank |-> is_blank_or_na(value),
                                          row      |-> row])
                  IN  IF row + 1 > SafetyLimit
                      THEN [err |-> "none", results |-> appended]
                      ELSE direct_column_loop(sheet, column, start_row, end_row,
                                              row + 1, appended)

\* read_excel.read_all_cells_in_column: resolve, open, scan, and release in `finally`
direct_read_all_cells_in_column(fs, wb, locator, column, start_row, end_row, name_opt, env) ==
    LET p == get_local_path(fs, locator, env)
    IN  IF p.err # "none" THEN [err |-> p.err, results |-> <<>>, files |-> p.files]
        ELSE LET o == open_sheet(p.files, wb, p.local_path[1], name_opt)
                 scanned == IF o.err # "none" THEN [err |-> o.err, results |-> <<>>]
                            ELSE direct_column_loop(o.sheet, column, start_row, end_row,
                                                    start_row, <<>>)
             IN  [err |-> scanned.err, results |-> scanned.results,
                  files |-> IF p.is_temp
                            THEN cleanup_temp_file(p.files, p.local_path[1], env)
                            ELSE p.files]

\* the while loop of read_excel.read_all_cells_in_row, entered with `col_idx`;
\* a lookup that raises AttributeError or IndexError counts as None, no lookup of
\* the model raises either
RECURSIVE direct_row_loop(_, _, _, _, _, _)
direct_row_loop(sheet, row, start_col_idx, end_col_idx, col_idx, results) ==
    IF end_col_idx # None /\ col_idx > end_col_idx[1]
    THEN [err |-> "none", results |-> results]
    ELSE LET col_letter == direct_column_index_to_letter(col_idx)
             cell_address == col_letter \o str_of_int(row)
             got == sheet_lookup(sheet, col_letter, row)
             value == got.value
         IN  IF got.err # "none" THEN [err |-> got.err, results |-> <<>>]
             ELSE IF value.t = "none" /\ col_idx > start_col_idx /\ end_col_idx = None
             THEN [err |-> "none", results |-> results]
             ELSE LET appended == Append(results,
                                         [address  |-> cell_address,
                                          value    |-> value,
                                          is_blank |-> is_blank_or_na(value),
                                          column   |-> col_letter])
                  IN  IF col_idx + 1 > SafetyLimit
                      THEN [err |-> "none", results |-> appended]
                      ELSE direct_row_loop(sheet, row, start_col_idx, end_col_idx,
                                           col_idx + 1, appended)

\* read_excel.read_all_cells_in_row: resolve, open, scan, and release in `finally`
direct_read_all_cells_in_row(fs, wb, locator, row, start_column, end_column, name_opt, env) ==
    LET p == get_local_path(fs, locator, env)
    IN  IF p.err # "none" THEN [err |-> p.err, results |-> <<>>, files |-> p.files]
        ELSE LET o == open_sheet(p.files, wb, p.local_path[1], name_opt)
                 start_col_idx == _letter_to_column_index(start_column)
                 end_col_idx == IF truthy_str(end_column)
                                THEN Some(_letter_to_column_index(end_column[1]))
                                ELSE None
                 scanned == IF o.err # "none" THEN [err |-> o.err, results |-> <<>>]
                            ELSE direct_row_loop(o.sheet, row, start_col_idx, end_col_idx,
                                                 start_col_idx, <<>>)
             IN  [err |-> scanned.err, results |-> scanned.results,
                  files |-> IF p.is_temp
                            THEN cleanup_temp_file(p.files, p.local_path[1], env)
                            ELSE p.files]

-----------------------------------------------------------------------------
(* Specification of the scans: the initial state draws a one-sheet document     *)
(* and the arguments; one action applies each reader's scan to them.            *)

\* what a stored cell holds in the scanned sheets
CellValues == {NoneValue, X}

\* the stored grids: rows 1..MaxGridRows of columns A and B; column A is filled
\* from row 1 down to some row, column B holds anything, B2 possibly a string that
\* is_blank_or_na counts as blank
Grids ==
    {g \in [1..MaxGridRows -> [{1, 2} -> CellValues \cup {NA, Blanks}]] :
        /\ \A r \in 1..MaxGridRows, c \in {1, 2} :
              g[r][c] \notin CellValues => (r = 2 /\ c = 2)
        /\ \A r \in 2..MaxGridRows : g[r][1] = X => g[r - 1][1] = X}

\* column arguments: inside the grid (either case) and beyond it
ScanColumns == { <<"b">>, <<"C">> }

\* start columns of the row scans: inside the grid, beyond it, and the 10001st
StartColumns == { <<"a">>, <<"C">>, <<"N","T","Q">> }

\* end columns of the row scans: not given, empty, inside the grid, beyond it
EndColumns == { None, Some(<<>>), Some(<<"B">>), Some(<<"d">>) }

ScanCalls ==
    {[op |-> o, column |-> c, start_row |-> sr, end_row |-> er] :
        o \in {"eager_column", "direct_column", "both_column"},
        c \in ScanColumns,
        sr \in 1..(MaxGridRows + 1) \cup {SafetyLimit, SafetyLimit + 1},
        er \in {None} \cup {Some(n) : n \in 1..(MaxGridRows + 2) \cup {2 * SafetyLimit}}}
    \cup
    {[op |-> o, row |-> r, start_column |-> sc, end_column |-> ec] :
        o \in {"eager_row", "direct_row", "both_row"},
        r \in {1, 2, MaxGridRows + 1},
        sc \in StartColumns,
        ec \in EndColumns}

InitScan ==
    /\ \E g \in Grids : OpenedOnLocalDoc(<<[name |-> "Sheet1", cells |-> g]>>)
    /\ pc = "start"
    /\ call \in ScanCalls
    /\ ret = NoRet

ScanColumnEager ==
    /\ pc = "start" /\ call.op = "eager_column"
    /\ ret' = read_all_cells_in_column(dataframe, call.column, call.start_row, call.end_row)
    /\ pc' = "done"
    /\ UNCHANGED <<sessionVars, call>>

ScanColumnDirect ==
    /\ pc = "start" /\ call.op = "direct_column"
    /\ \E env \in {QuietEnv} :
          LET r == direct_read_all_cells_in_column(files, workbook, LocalDoc, call.column,
                                                   call.start_row, call.end_row, None, env)
          IN  /\ ret' = [err |-> r.err, results |-> r.results]
              /\ files' = r.files
    /\ pc' = "done"
    /\ UNCHANGED <<workbook, alive, excel_path, local_path, is_temp, sheet_name,
                   dataframe, opened, closes, call>>

ScanRowEager ==
    /\ pc = "start" /\ call.op = "eager_row"
    /\ ret' = read_all_cells_in_row(dataframe, call.row, call.start_column,
                                    call.end_column)
    /\ pc' = "done"
    /\ UNCHANGED <<sessionVars, call>>

ScanRowDirect ==
    /\ pc = "start" /\ call.op = "direct_row"
    /\ \E env \in {QuietEnv} :
          LET r == direct_read_all_cells_in_row(files, workbook, LocalDoc, call.row,
                                                call.start_column, call.end_column,
                                                None, env)
          IN  /\ ret' = [err |-> r.err, results |-> r.results]
              /\ files' = r.files
    /\ pc' = "done"
    /\ UNCHANGED <<workbook, alive, excel_path, local_path, is_temp, sheet_name,
                   dataframe, opened, closes, call>>

\* the same column scan made with both readers
ScanColumnBoth ==
    /\ pc = "start" /\ call.op = "both_column"
    /\ \E env \in {QuietEnv} :
          LET e == read_all_cells_in_column(dataframe, call.column, call.start_row,
                                            call.end_row)
              d == direct_read_all_cells_in_column(files, workbook, LocalDoc,
                                                   call.column, call.start_row,
                                                   call.end_row, None, env)
          IN  /\ ret' = [err |-> "none",
                         eager  |-> [err |-> e.err, results |-> e.results],
                         direct |-> [err |-> d.err, results |-> d.results]]
              /\ files' = d.files
    /\ pc' = "done"
    /\ UNCHANGED <<workbook, alive, excel_path, local_path, is_temp, sheet_name,
                   dataframe, opened, closes, call>>

\* the same row scan made with both readers
ScanRowBoth ==
    /\ pc = "start" /\ call.op = "both_row"
    /\ \E env \in {QuietEnv} :
          LET e == read_all_cells_in_row(dataframe, call.row, call.start_column,
                                         call.end_column)
              d == direct_read_all_cells_in_row(files, workbook, LocalDoc, call.row,
                                                call.start_column, call.end_column,
                                                None, env)
          IN  /\ ret' = [err |-> "none",
                         eager  |-> [err |-> e.err, results |-> e.results],
                         direct |-> [err |-> d.err, results |-> d.results]]
              /\ files' = d.files
    /\ pc' = "done"
    /\ UNCHANGED <<workbook, alive, excel_path, local_path, is_temp, sheet_name,
                   dataframe, opened, closes, call>>

NextScan ==
    \/ ScanColumnEager
    \/ ScanColumnDirect
    \/ ScanRowEager
    \/ ScanRowDirect
    \/ ScanColumnBoth
    \/ ScanRowBoth

SpecScan == InitScan /\ [][NextScan]_vars


-----------------------------------------------------------------------------
(* Specification of the address codec: the inputs are drawn by the initial      *)
(* state, one action applies each conversion.                                   *)

AddrAlphabet == {"A", "b", "Z", "0", "1", " ", "\n"}

RECURSIVE StringsUpTo(_, _)
StringsUpTo(alphabet, n) ==
    IF n = 0 THEN {<<>>}
    ELSE LET shorter == StringsUpTo(alphabet, n - 1)
         IN  shorter \cup {Append(s, ch) : s \in shorter, ch \in alphabet}

\* the corners given to read_cell_range
RangeCorners == { <<"A","0">>, <<"A","1">>, <<"a","2">>, <<"B","1">>, <<"B","3">>,
                  <<"C","4">>, <<"B">>, <<"2">> }

CodecCalls ==
    {[op |-> "format_parse", row |-> r, col |-> c, s |-> <<>>, e |-> <<>>] :
        r \in 0..MaxRowIdx, c \in 0..MaxColIdx}
    \cup {[op |-> "letter", row |-> 0, col |-> c, s |-> <<>>, e |-> <<>>] :
            c \in 0..MaxColIdx}
    \cup {[op |-> o, row |-> 0, col |-> 0, s |-> s, e |-> <<>>] :
            o \in {"parse", "read_cell"}, s \in StringsUpTo(AddrAlphabet, MaxAddrLen)}
    \cup {[op |-> "read_cell_range", row |-> 0, col |-> 0, s |-> s, e |-> e] :
            s \in RangeCorners, e \in RangeCorners}

InitCodec ==
    /\ OpenedOnLocalDoc(DefaultWorkbook)
    /\ pc = "start"
    /\ call \in CodecCalls
    /\ ret = NoRet

\* format a coordinate as the scans do, then parse it back
FormatThenParse ==
    /\ pc = "start" /\ call.op = "format_parse"
    /\ LET address == format_address(call.row, call.col)
           parsed  == _parse_cell_address(address)
       IN  ret' = [err |-> parsed.err, address |-> address,
                   row |-> parsed.row, col |-> parsed.col]
    /\ pc' = "done"
    /\ UNCHANGED <<sessionVars, call>>

\* both copies of the column-index-to-letter conversion
ColumnIndexToLetter ==
    /\ pc = "start" /\ call.op = "letter"
    /\ ret' = [err |-> "none",
               eager  |-> _column_index_to_letter(call.col),
               direct |-> direct_column_index_to_letter(call.col)]
    /\ pc' = "done"
    /\ UNCHANGED <<sessionVars, call>>

ParseAddress ==
    /\ pc = "start" /\ call.op = "parse"
    /\ ret' = _parse_cell_address(call.s)
    /\ pc' = "done"
    /\ UNCHANGED <<sessionVars, call>>

ReadCell ==
    /\ pc = "start" /\ call.op = "read_cell"
    /\ ret' = read_cell(dataframe, call.s)
    /\ pc' = "done"
    /\ UNCHANGED <<sessionVars, call>>

ReadCellRange ==
    /\ pc = "start" /\ call.op = "read_cell_range"
    /\ ret' = read_cell_range(dataframe, call.s, call.e)
    /\ pc' = "done"
    /\ UNCHANGED <<sessionVars, call>>

NextCodec ==
    \/ FormatThenParse
    \/ ColumnIndexToLetter
    \/ ParseAddress
    \/ ReadCell
    \/ ReadCellRange

SpecCodec == InitCodec /\ [][NextCodec]_vars

-----------------------------------------------------------------------------
(* Specification of the range reads: the initial state draws a one-sheet        *)
(* document and the two corners; one action applies each reader's range read.   *)

\* the stored grids of the range reads: rows 1..MaxGridRows of columns A and B,
\* each cell empty or "x", B2 possibly the string "N/A"
RangeGrids ==
    {g \in [1..MaxGridRows -> [{1, 2} -> {NoneValue, X, NA}]] :
        \A r \in 1..MaxGridRows, c \in {1, 2} : g[r][c] = NA => (r = 2 /\ c = 2)}

\* corners: inside the grid, beyond it, with row 0, and not an address
Corners == { <<"A","1">>, <<"b","2">>, <<"B","1">>, <<"A","3">>, <<"C","3">>,
             <<"A","0">>, <<"1","A">> }

RangeCalls ==
    {[op |-> o, s |-> s, e |-> e] :
        o \in {"eager_range", "direct_range"}, s \in Corners, e \in Corners}

InitRange ==
    /\ \E g \in RangeGrids : OpenedOnLocalDoc(<<[name |-> "Sheet1", cells |-> g]>>)
    /\ pc = "start"
    /\ call \in RangeCalls
    /\ ret = NoRet

RangeEager ==
    /\ pc = "start" /\ call.op = "eager_range"
    /\ LET r == read_cell_range(dataframe, call.s, call.e)
       IN  ret' = [err |-> r.err, values |-> r.values]
    /\ pc' = "done"
    /\ UNCHANGED <<sessionVars, call>>

RangeDirect ==
    /\ pc = "start" /\ call.op = "direct_range"
    /\ \E env \in {QuietEnv} :
          LET r == direct_read_cell_range(files, workbook, LocalDoc, call.s, call.e,
                                          None, env)
          IN  /\ ret' = [err |-> r.err, values |-> r.values]
              /\ files' = r.files
    /\ pc' = "done"
    /\ UNCHANGED <<workbook, alive, excel_path, local_path, is_temp, sheet_name,
                   dataframe, opened, closes, call>>

NextRange == RangeEager \/ RangeDirect

SpecRange == InitRange /\ [][NextRange]_vars

-----------------------------------------------------------------------------
(* Specification of the blank classifier: the initial state draws the value,    *)
(* one action classifies it.                                                    *)

\* the longest string drawn from BlankAlphabet
MaxTokenLen == 4

BlankAlphabet == {" ", "\t", "n", "N", "a", "/", "0"}

\* longer strings: the remaining tokens, padded and in mixed case, and near misses
LongerStrings ==
    { <<" ","n","o","n","e"," ">>, <<"N","O","N","E">>, <<"N","o","n","e","\n">>,
      <<"N","U","L","L">>, <<"N","u","l","l">>, <<"\t","n","u","l","l">>,
      <<"#","N","/","A">>, <<"#","n","/","a"," "," ">>, <<"#","N","A">>, <<"#","n","a">>,
      <<"N","/","A"," ">>, <<" "," ","N","A","\t","\n">>,
      <<"n","o","n","e","s">>, <<"#">>, <<"#","#","N","A">>, <<"N","U","L">>,
      <<"N","O"," ","N","E">>, <<"x">>, <<"f","a","l","s","e">>, <<"-">> }

ClassifiedValues ==
    {NoneValue, NumValue(0), NumValue(1), BoolValue(FALSE), BoolValue(TRUE)}
    \cup {StrValue(s) : s \in StringsUpTo(BlankAlphabet, MaxTokenLen) \cup LongerStrings}

InitBlank ==
    /\ OpenedOnLocalDoc(DefaultWorkbook)
    /\ pc = "start"
    /\ call \in {[op |-> "is_blank_or_na", value |-> v] : v \in ClassifiedValues}
    /\ ret = NoRet

Classify ==
    /\ pc = "start" /\ call.op = "is_blank_or_na"
    /\ ret' = [err |-> "none", is_blank |-> is_blank_or_na(call.value)]
    /\ pc' = "done"
    /\ UNCHANGED <<sessionVars, call>>

NextBlank == Classify

SpecBlank == InitBlank /\ [][NextBlank]_vars

-----------------------------------------------------------------------------
(* Specification of the session: objects are constructed on any locator, read, *)
(* closed (explicitly or by scope exit) any number of times and torn down.     *)

NoLocator == [scheme |-> "", netloc |-> "", path |-> ""]

\* sheet-name arguments: none, a sheet of the document, an absent sheet, ""
SheetArgs == {None, Some("Sheet2"), Some("Nope"), Some("")}

\* during close only the outcome of os.unlink matters
CloseEnvs == {e \in Envs : e.boto3 /\ e.creds = "ok"}

\* the surroundings that can make a difference to a construction on `locator`:
\* none for a local path; for a remote one, unlink is only reached once the
\* import and the client succeeded
NewEnvs(locator) ==
    IF is_s3_uri(locator)
    THEN {e \in Envs : /\ ~e.boto3 => (e.creds = "ok" /\ e.unlink_ok)
                       /\ e.creds = "none_at_client" => e.unlink_ok}
    ELSE {QuietEnv}

\* arguments of the reads made on a session
SessionAddrs == { <<"A","1">>, <<"b","2">>, <<"C","9">> }
SessionColumnScans == { [column |-> <<"A">>, start_row |-> 1, end_row |-> None],
                        [column |-> <<"B">>, start_row |-> 2, end_row |-> Some(3)] }
SessionRowScans == { [row |-> 1, start_column |-> <<"A">>, end_column |-> None],
                     [row |-> 2, start_column |-> <<"a">>, end_column |-> Some(<<"B">>)] }

Self == [local_path |-> local_path, is_temp |-> is_temp, dataframe |-> dataframe]

Init ==
    /\ files = InitialFiles
    /\ workbook = DefaultWorkbook
    /\ alive = FALSE
    /\ excel_path = NoLocator
    /\ local_path = None
    /\ is_temp = FALSE
    /\ sheet_name = None
    /\ dataframe = None
    /\ opened = FALSE
    /\ closes = 0
    /\ pc = "idle"
    /\ call = [op |-> "none"]
    /\ ret = NoRet

\* ExcelReader(excel_path, sheet_name): __init__ and _load_dataframe
New ==
    /\ ~alive
    /\ \E locator \in Locators, name \in SheetArgs :
       \E env \in NewEnvs(locator) :
          /\ is_s3_uri(locator) => HasFreeTemp(files)
          /\ LET r == _load_dataframe(files, workbook, locator, name, env)
             IN  /\ files' = r.files
                 /\ excel_path' = locator
                 /\ local_path' = r.local_path
                 /\ is_temp' = r.is_temp
                 /\ sheet_name' = r.sheet_name
                 /\ dataframe' = r.dataframe
                 /\ opened' = (r.err = "none")
                 /\ ret' = [err |-> r.err, created |-> r.created]
          /\ call' = [op |-> "new", locator |-> locator, name |-> name, env |-> env]
    /\ alive' = TRUE
    /\ closes' = 0
    /\ UNCHANGED <<workbook, pc>>

CallReadCell ==
    /\ alive /\ opened
    /\ \E a \in SessionAddrs :
          /\ ret' = read_cell(dataframe, a)
          /\ call' = [op |-> "read_cell", s |-> a]
    /\ UNCHANGED <<sessionVars, pc>>

CallReadCellRange ==
    /\ alive /\ opened
    /\ \E a \in SessionAddrs, b \in SessionAddrs :
          /\ ret' = read_cell_range(dataframe, a, b)
          /\ call' = [op |-> "read_cell_range", s |-> a, e |-> b]
    /\ UNCHANGED <<sessionVars, pc>>

CallScanColumn ==
    /\ alive /\ opened
    /\ \E a \in SessionColumnScans :
          /\ ret' = read_all_cells_in_column(dataframe, a.column, a.start_row, a.end_row)
          /\ call' = [op |-> "read_all_cells_in_column", args |-> a]
    /\ UNCHANGED <<sessionVars, pc>>

CallScanRow ==
    /\ alive /\ opened
    /\ \E a \in SessionRowScans :
          /\ ret' = read_all_cells_in_row(dataframe, a.row, a.start_column, a.end_column)
          /\ call' = [op |-> "read_all_cells_in_row", args |-> a]
    /\ UNCHANGED <<sessionVars, pc>>

\* the effect of self.close() on the fields and the file system
Closing(env) ==
    LET r == close(Self, files, env)
    IN  /\ files' = r.files
        /\ local_path' = r.local_path
        /\ is_temp' = r.is_temp
        /\ dataframe' = r.dataframe
        /\ closes' = closes + 1
        /\ ret' = NoRet

\* ExcelReader.close called by the holder of the session
Close ==
    /\ alive /\ opened /\ closes < MaxCloses
    /\ \E env \in CloseEnvs : Closing(env) /\ call' = [op |-> "close", env |-> env]
    /\ UNCHANGED <<workbook, alive, excel_path, sheet_name, opened, pc>>

\* ExcelReader.__exit__: the end of a `with` block
Exit ==
    /\ alive /\ opened /\ closes < MaxCloses
    /\ \E env \in CloseEnvs : Closing(env) /\ call' = [op |-> "exit", env |-> env]
    /\ UNCHANGED <<workbook, alive, excel_path, sheet_name, opened, pc>>

\* ExcelReader.__del__: teardown of the object, also of one whose __init__ raised
Del ==
    /\ alive
    /\ \E env \in CloseEnvs : Closing(env) /\ call' = [op |-> "del", env |-> env]
    /\ alive' = FALSE
    /\ opened' = FALSE
    /\ UNCHANGED <<workbook, excel_path, sheet_name, pc>>

Next ==
    \/ New
    \/ CallReadCell
    \/ CallReadCellRange
    \/ CallScanColumn
    \/ CallScanRow
    \/ Close
    \/ Exit
    \/ Del

Spec == Init /\ [][Next]_vars


-----------------------------------------------------------------------------
(* Properties of the address codec (checked under SpecCodec) *)

AnyLetter(ch) == ch \in Range(UpperLetters) \/ ch \in Range(LowerLetters)
AnyDigit(ch) == ch \in Range(DigitChars)

\* one or more letters followed by one or more digits, nothing else
WellShaped(s) ==
    \E k \in 1..(Len(s) - 1) :
        /\ \A i \in 1..k : AnyLetter(s[i])
        /\ \A i \in (k + 1)..Len(s) : AnyDigit(s[i])

\* the digits of a well-shaped address are all zero
RowIsZero(s) == \A i \in 1..Len(s) : AnyDigit(s[i]) => s[i] = "0"

\* Position of a name in the order A..Z, AA..AZ, BA.., ZZ, AAA..: the number of
\* shorter names, plus the name read as an ordinary base-26 numeral with A = 0
RECURSIVE ShorterNames(_)
ShorterNames(len) ==
    IF len <= 1 THEN 0 ELSE 26 * (ShorterNames(len - 1) + 1)

RECURSIVE PlainBase26(_)
PlainBase26(name) ==
    IF Len(name) = 0 THEN 0
    ELSE PlainBase26(SubSeq(name, 1, Len(name) - 1)) * 26
         + (IndexOf(UpperLetters, name[Len(name)]) - 1)

IsNthColumnName(name, i) ==
    /\ Len(name) >= 1
    /\ \A k \in 1..Len(name) : name[k] \in Range(UpperLetters)
    /\ ShorterNames(Len(name)) + PlainBase26(name) = i

\* C8: formatting a zero-based (row, column) as column letters followed by the
\* decimal row + 1 and parsing the result gives back exactly (row, column); and the
\* letters of every parsed address are the letters of the column index parsed
AddressRoundTrip ==
    /\ (pc = "done" /\ call.op = "format_parse") =>
          (ret.err = "none" /\ ret.row = call.row /\ ret.col = call.col)
    /\ (pc = "done" /\ call.op = "parse" /\ ret.err = "none") =>
          LET u == upper(call.s)
          IN  _column_index_to_letter(ret.col) = SubSeq(u, 1, leading_letters(u))

\* C8 witness: (row 9, column 702) is formatted as "AAA10" and parsed back
AddressRoundTripWitness ==
    /\ pc = "done" /\ call.op = "format_parse"
    /\ call.row = 9 /\ call.col = 702
    /\ ret.address = <<"A","A","A","1","0">>
    /\ ret.row = 9 /\ ret.col = 702

\* C9: index i is converted to the i-th name of A, B, .., Z, AA, AB, .., AZ, BA, ..
\* (0 -> A, 25 -> Z, 26 -> AA, 27 -> AB, 51 -> AZ, 52 -> BA, 701 -> ZZ, 702 -> AAA),
\* by the eager reader's copy and by the direct reader's copy alike
ColumnLetterSequence ==
    (pc = "done" /\ call.op = "letter") =>
        /\ IsNthColumnName(ret.eager, call.col)
        /\ IsNthColumnName(ret.direct, call.col)
        /\ ret.eager = ret.direct
        /\ (call.col = 0 => ret.eager = <<"A">>)
        /\ (call.col = 25 => ret.eager = <<"Z">>)
        /\ (call.col = 26 => ret.eager = <<"A","A">>)
        /\ (call.col = 27 => ret.eager = <<"A","B">>)
        /\ (call.col = 51 => ret.eager = <<"A","Z">>)
        /\ (call.col = 52 => ret.eager = <<"B","A">>)
        /\ (call.col = 701 => ret.eager = <<"Z","Z">>)
        /\ (call.col = 702 => ret.eager = <<"A","A","A">>)

\* C9 witness: index 702 has been converted to AAA by both copies
ColumnLetterSequenceWitness ==
    /\ pc = "done" /\ call.op = "letter" /\ call.col = 702
    /\ ret.eager = <<"A","A","A">> /\ ret.direct = <<"A","A","A">>

\* C10: parsing fails for every string that is not letters followed by digits and
\* for a well-shaped address with row number 0, never returns a negative row or
\* column, and no read touches the table at a negative coordinate
ParseRejectsMalformed ==
    /\ (pc = "done" /\ call.op = "parse" /\ ret.err = "none") =>
          (WellShaped(call.s) /\ ~RowIsZero(call.s) /\ ret.row >= 0 /\ ret.col >= 0)
    /\ (pc = "done" /\ call.op \in {"read_cell", "read_cell_range"}) =>
          \A i \in 1..Len(ret.coords) : ret.coords[i][1] >= 0 /\ ret.coords[i][2] >= 0

-----------------------------------------------------------------------------
(* Properties of the blank classifier (checked under SpecBlank) *)

\* the blank tokens, in upper case
BlankTokens == { <<>>, <<"N","/","A">>, <<"N","A">>, <<"N","U","L","L">>,
                 <<"N","O","N","E">>, <<"#","N","/","A">>, <<"#","N","A">> }

\* the lower-case form of a character
LowerOf(ch) ==
    IF ch \in Range(UpperLetters) THEN LowerLetters[IndexOf(UpperLetters, ch)] ELSE ch

\* s[i..j] is s without its leading and trailing whitespace
IsTrimOf(s, i, j) ==
    /\ \A k \in 1..(i - 1) : s[k] \in WhitespaceChars
    /\ \A k \in (j + 1)..Len(s) : s[k] \in WhitespaceChars
    /\ \/ i = j + 1 /\ (i = 1 \/ i = Len(s) + 1)
       \/ i <= j /\ s[i] \notin WhitespaceChars /\ s[j] \notin WhitespaceChars

\* s[i..j] spells the token, letter case aside
SpellsToken(s, i, j, token) ==
    /\ j - i + 1 = Len(token)
    /\ \A k \in 1..Len(token) :
          s[i + k - 1] = token[k] \/ s[i + k - 1] = LowerOf(token[k])

\* the value is absent, or a string that trims to a blank token
IsBlankValue(value) ==
    \/ value.t = "none"
    \/ /\ value.t = "str"
       /\ \E i \in 1..(Len(value.s) + 1), j \in 0..Len(value.s) :
             /\ IsTrimOf(value.s, i, j)
             /\ \E token \in BlankTokens : SpellsToken(value.s, i, j, token)

-----------------------------------------------------------------------------
(* Properties of the range reads (checked under SpecRange) *)

RangeDone == pc = "done" /\ call.op \in {"eager_range", "direct_range"}

\* a corner that is a valid address: letters, then digits that are not all zero
ValidCorner(s) == WellShaped(s) /\ ~RowIsZero(s)

\* the 1-based row and column a valid corner names
CornerRow(s) == int_of(SubSeq(s, leading_letters(upper(s)) + 1, Len(s)))
CornerCol(s) ==
    LET k == leading_letters(upper(s))
    IN  ShorterNames(k) + PlainBase26(SubSeq(upper(s), 1, k)) + 1

ValidRange ==
    /\ ValidCorner(call.s) /\ ValidCorner(call.e)
    /\ CornerRow(call.s) <= CornerRow(call.e)
    /\ CornerCol(call.s) <= CornerCol(call.e)

\* C12: a read of a valid range returns (endRow-startRow+1)*(endCol-startCol+1)
\* values, row by row from the lowest row and within each row from the lowest
\* column, each the value the document stores at that coordinate, empty where the
\* document stores nothing or the coordinate lies beyond the populated extent
RangeIsRowMajor ==
    (RangeDone /\ ValidRange) =>
        LET r1 == CornerRow(call.s)
            c1 == CornerCol(call.s)
            width == CornerCol(call.e) - c1 + 1
            height == CornerRow(call.e) - r1 + 1
        IN  /\ ret.err = "none"
            /\ Len(ret.values) = height * width
            /\ \A i \in 0..(height - 1), j \in 0..(width - 1) :
                  ret.values[i * width + j + 1] = cell_value(workbook[1], r1 + i, c1 + j)

\* C13: on valid corners a range read fails with InvalidRange (ValueError "Invalid
\* range"), returning no values, exactly when the start row is greater than the end
\* row or the start column greater than the end column
RangeFailsExactlyWhenReversed ==
    (RangeDone /\ ValidCorner(call.s) /\ ValidCorner(call.e)) =>
        /\ (ret.err = "ValueError: Invalid range") <=>
              (CornerRow(call.s) > CornerRow(call.e) \/ CornerCol(call.s) > CornerCol(call.e))
        /\ ret.err = "ValueError: Invalid range" => ret.values = <<>>

-----------------------------------------------------------------------------
(* Properties of the column scans (checked under SpecScan) *)

ColumnScanDone == pc = "done" /\ call.op \in {"eager_column", "direct_column"}

\* the 1-based number of the column named by the call
ScannedColumnNumber ==
    ShorterNames(Len(call.column)) + PlainBase26(upper(call.column)) + 1

\* what the document stores at a row of the scanned column, and whether it is blank
StoredAt(row) == cell_value(workbook[1], row, ScannedColumnNumber)
BlankAt(row) == is_blank_or_na(StoredAt(row))

\* the records are those of rows first, first+1, ... in this order
RowsFrom(results, first) == \A i \in 1..Len(results) : results[i].row = first + i - 1

\* C1: without endRow the scan returns the start cell and the consecutive non-blank
\* cells below it, and stops at (without returning) the first blank cell at a row
\* strictly greater than startRow
ScanStopsAtFirstBlank ==
    (ColumnScanDone /\ call.end_row = None) =>
        /\ ret.err = "none"
        /\ Len(ret.results) >= 1
        /\ RowsFrom(ret.results, call.start_row)
        /\ \A i \in 2..Len(ret.results) : ~BlankAt(ret.results[i].row)
        /\ BlankAt(call.start_row + Len(ret.results))

\* C2: with an explicit endRow >= startRow the scan returns exactly
\* endRow - startRow + 1 records, one for every row from startRow through endRow
\* in ascending order, whether or not any of those cells is blank
ExplicitEndReadsThrough ==
    (ColumnScanDone /\ call.end_row # None /\ call.start_row <= call.end_row[1]) =>
        /\ ret.err = "none"
        /\ Len(ret.results) = call.end_row[1] - call.start_row + 1
        /\ RowsFrom(ret.results, call.start_row)

\* C3: without endRow and with a blank start cell (inside or beyond the populated
\* extent) the scan returns exactly one record, the start cell, marked blank
BlankStartYieldsOneRecord ==
    (ColumnScanDone /\ call.end_row = None /\ BlankAt(call.start_row)) =>
        /\ ret.err = "none"
        /\ Len(ret.results) = 1
        /\ ret.results[1].row = call.start_row
        /\ ret.results[1].is_blank

-----------------------------------------------------------------------------
(* Properties of the row scans and of both scans (checked under SpecScan) *)

RowScanDone == pc = "done" /\ call.op \in {"eager_row", "direct_row"}

\* the 0-based index of a column name
ColumnIndex(name) == ShorterNames(Len(name)) + PlainBase26(upper(name))

\* an end column is given (an empty name is no column)
EndColumnGiven == call.end_column # None /\ call.end_column # Some(<<>>)

\* the records are those of columns first, first+1, ... (0-based) in this order
ColumnsFrom(results, first) ==
    \A i \in 1..Len(results) : IsNthColumnName(results[i].column, first + i - 1)

\* C14: a row scan starting within the ceiling always returns the start cell, also
\* when it is blank or beyond the populated extent; with an end column at or after
\* the start and within the ceiling it returns exactly one record for every column
\* from the start column through the end column, in ascending order
RowScanReadsThrough ==
    (RowScanDone /\ ColumnIndex(call.start_column) < SafetyLimit) =>
        /\ ~EndColumnGiven =>
              /\ ret.err = "none"
              /\ Len(ret.results) >= 1
              /\ ColumnsFrom(ret.results, ColumnIndex(call.start_column))
        /\ (/\ EndColumnGiven
            /\ ColumnIndex(call.start_column) <= ColumnIndex(call.end_column[1])
            /\ ColumnIndex(call.end_column[1]) < SafetyLimit) =>
              /\ ret.err = "none"
              /\ Len(ret.results) = ColumnIndex(call.end_column[1])
                                      - ColumnIndex(call.start_column) + 1
              /\ ColumnsFrom(ret.results, ColumnIndex(call.start_column))

\* C15: no column scan returns a record of a row beyond the 10,000th and no row
\* scan returns a record of a column beyond the 10,000th, whatever the start and
\* the end given
ScansStayUnderCeiling ==
    /\ ColumnScanDone =>
          \A i \in 1..Len(ret.results) : ret.results[i].row <= SafetyLimit
    /\ RowScanDone =>
          \A i \in 1..Len(ret.results) :
              ColumnIndex(ret.results[i].column) + 1 <= SafetyLimit

\* C16: on the same document and the same arguments the eager reader and the
\* direct reader return the same sequence of records, for column scans and for
\* row scans
ReadersAgree ==
    (pc = "done" /\ call.op \in {"both_column", "both_row"}) => ret.eager = ret.direct

\* a scan of one reader made without an end bound
OpenEndedScanDone ==
    \/ ColumnScanDone /\ call.end_row = None
    \/ RowScanDone /\ ~EndColumnGiven

\* C17 as claimed: in a scan without an end bound a cell after the start whose
\* value is a blank token ("N/A", "null", a whitespace-only string) ends the scan
\* as an empty cell does, so that no returned record other than the first holds a
\* string marked blank (empty cells returned after the start are the matter of C1)
GapIsAnyBlank ==
    OpenEndedScanDone =>
        \A i \in 2..Len(ret.results) :
            ret.results[i].value.t = "str" => ~ret.results[i].is_blank

\* the record of the first position at which an empty value ends the scan: the
\* second, in the direct column scan the third
FirstGapRecord == IF call.op = "direct_column" THEN 3 ELSE 2

\* C17 as amended: a scan without an end bound ends at an empty fetched value, not
\* at every blank one: each record from FirstGapRecord on has a value that is not
\* empty, every record is marked blank exactly when its value is absent or trims to
\* a blank token, and a direct scan that ended below the ceiling ended in front of a
\* cell that stores nothing
GapIsEmptyValue ==
    OpenEndedScanDone =>
        /\ \A i \in FirstGapRecord..Len(ret.results) : ret.results[i].value.t # "none"
        /\ \A i \in 1..Len(ret.results) :
              ret.results[i].is_blank <=> IsBlankValue(ret.results[i].value)
        /\ (call.op = "direct_column" /\ ret.err = "none"
               /\ call.start_row + Len(ret.results) <= SafetyLimit) =>
              StoredAt(call.start_row + Len(ret.results)).t = "none"
        /\ (call.op = "direct_row" /\ ret.err = "none"
               /\ ColumnIndex(call.start_column) + Len(ret.results) <= SafetyLimit) =>
              cell_value(workbook[1], call.row,
                         ColumnIndex(call.start_column) + Len(ret.results) + 1).t = "none"

\* C17 witness: a column scan without an end bound went past a whitespace-only
\* string, returned it marked blank, and returned the cell below it
GapIsEmptyValueWitness ==
    /\ ColumnScanDone /\ call.end_row = None /\ call.start_row = 1
    /\ Len(ret.results) = 3
    /\ ret.results[2].value = Blanks /\ ret.results[2].is_blank
    /\ ret.results[3].value = X

-----------------------------------------------------------------------------
(* Properties of the session (checked under Spec) *)

ReadOps == {"read_cell", "read_cell_range", "read_all_cells_in_column",
            "read_all_cells_in_row"}

\* the sheet the session selected, as the document stores it
SelectedSheet == SheetNamed(workbook, sheet_name[1])

\* C4 as claimed: after close() every later read fails with InvalidState
\* (RuntimeError "DataFrame not loaded") and returns no value
ReadsFailAfterClose ==
    (call.op \in ReadOps /\ closes >= 1) => ret.err = "RuntimeError: DataFrame not loaded"

\* C4 as amended: close() keeps the loaded table, so a read made after close() never
\* fails with InvalidState; it answers from the table loaded at open (read_cell on a
\* valid address returns the stored value, or empty beyond the populated extent)
ReadsSurviveClose ==
    (call.op \in ReadOps /\ closes >= 1) =>
        /\ dataframe = Some(read_excel(SelectedSheet))
        /\ ret.err # "RuntimeError: DataFrame not loaded"
        /\ call.op = "read_cell" =>
              LET a == _parse_cell_address(call.s)
              IN  ret.err = "none" /\ ret.value = cell_value(SelectedSheet, a.row + 1, a.col + 1)

\* C4 witness: a cell read after close() of a session on a remote document returned
\* the stored value
ReadsSurviveCloseWitness ==
    /\ call.op = "read_cell" /\ closes >= 1 /\ is_s3_uri(excel_path)
    /\ call.s = <<"A","1">> /\ ret.err = "none" /\ ret.value = X

\* C5: a close() after the first one (explicit, by scope exit or by teardown) raises
\* nothing and leaves the session fields and the file system as they were
CloseIsIdempotent ==
    [][(closes' = closes + 1 /\ closes >= 1) =>
          /\ ret'.err = "none"
          /\ files' = files
          /\ local_path' = local_path
          /\ is_temp' = is_temp
          /\ dataframe' = dataframe
          /\ sheet_name' = sheet_name
          /\ excel_path' = excel_path]_vars

\* C5 witness: a session on a remote document has been closed a second time, the
\* first close having failed to delete the temporary file
CloseIsIdempotentWitness ==
    /\ closes >= 2 /\ opened /\ is_s3_uri(excel_path)
    /\ call.op \in {"close", "exit"}
    /\ \E f \in FileNames : f \notin LocalNames /\ files[f] = "xlsx"

\* C6: when opening on a remote locator fails after a temporary file was created,
\* that file is gone when the error reaches the caller (deletion errors aside)
FailedOpenLeavesNoTempFile ==
    (call.op = "new" /\ ret.err # "none" /\ call.env.unlink_ok) =>
        \A f \in ret.created : files[f] = "absent"

\* C7: on a local path the resolved path is the path itself with is_temp false, and
\* no step of such a session (failing open, reads, close, repeated close, scope exit,
\* teardown) deletes or alters a local file
LocalFileNeverDeleted ==
    [][(excel_path' # NoLocator /\ ~is_s3_uri(excel_path')) =>
          /\ \A f \in LocalNames : files'[f] = files[f]
          /\ files'[excel_path'.path] = InitialFiles[excel_path'.path]
          /\ opened' => (local_path' = Some(excel_path'.path) /\ ~is_temp')]_vars

\* C7 witness: a session on the local document was closed twice and torn down, and
\* the document is still there
LocalFileNeverDeletedWitness ==
    /\ excel_path = LocalDoc /\ ~alive /\ closes >= 3
    /\ call.op = "del" /\ files["data.xlsx"] = "xlsx"

====
